---- MODULE Spec2Model ----
(***************************************************************************)
(* imageapp: the ingestion pipeline (bounded job queue + worker pool) of   *)
(* backend/internal/services, the notification hub of backend/internal/ws, *)
(* and the callers wired together by main.                                 *)
(*                                                                         *)
(* Go channel semantics used throughout:                                   *)
(*  - a send on a closed channel panics, also inside a select that has a   *)
(*    default case; close of a closed channel panics; a panic that no      *)
(*    goroutine recovers ends the process (nothing recovers here);         *)
(*  - `for x := range ch` keeps receiving what a closed channel still      *)
(*    buffers and ends when it is closed and empty;                        *)
(*  - a select that is parked proceeds as soon as one of its cases can,    *)
(*    so closing `done` commits every goroutine parked in a select that    *)
(*    has a `<-done` case to that case.                                    *)
(***************************************************************************)
EXTENDS Integers, Sequences, FiniteSets, TLC

(* ---------------------------------------------------------------------- *)
(* Bounds                                                                  *)
(* ---------------------------------------------------------------------- *)
\* items (rows of the images table) that exist or get uploaded in one run
NumItems == 2
\* worker goroutines (maxWorkers, a constructor argument)
NumWorkers == 2
\* capacity of the jobs channel; the source fixes it at 100, the model
\* scales it down and every property is stated relative to QueueCap
QueueCap == 2
\* capacity of a client's send channel; 256 in the source, scaled down
SendCap == 1
\* capacity of a client's send channel where two messages have to wait in
\* one buffer
OrderSendCap == 2
\* websocket connections
NumClients == 3
\* calls of Hub.Shutdown
MaxHubShutdowns == 2
\* calls of ImageProcessor.Shutdown (main: one explicit, one deferred)
MaxShutdowns == 2

\* length of the token window; 128 in the source, scaled down
SeqLen == 2
\* width of a hidden-state vector; 384 in the source, scaled down
Dim == 2
\* token ids the tokenizer produces (0 is the padding id)
NumTokens == 2
\* concurrent callers of EmbedTags (workers and filtered-feed requests)
NumCallers == 2
\* calls of EmbeddingService.Close (pipeline Shutdown, main's explicit call,
\* main's deferred call)
NumCloseCalls == 3
\* rows of the images table a feed query runs over
NumRows == 3
\* distinct created_at values
MaxTime == 3

Items == 1..NumItems
Workers == 1..NumWorkers
Clients == 1..NumClients
\* every item can be queued by its upload and by the recovery scan
JobIds == 1..(2 * NumItems)
Callers == 1..NumCallers
CloseCalls == 1..NumCloseCalls
RowIds == 1..NumRows
Times == 1..MaxTime

VARIABLES
    \* ---- record store
    status,      \* images.thumbnail_status per item ("none": no row yet)
    \* ---- ImageProcessor
    jobs,        \* p.jobs: the buffered channel, a sequence of job ids
    jobsClosed,  \* close(p.jobs) has happened
    jobItem,     \* job.FileID of every job handed to Queue (0: not yet)
    jobState,    \* "new", "queued", "dropped", "running", "ok", "failed",
                 \* "lost" (its Queue call panicked)
    cbCount,     \* how often onComplete was invoked with the job
    wpc,         \* position of every worker goroutine
    wjob,        \* the job a worker holds (0: none)
    wmsg,        \* the message a worker's onComplete hands to Broadcast
    upc,         \* processUpload per item: "idle", "inserted", "done"
    scanPc,      \* processPending: "start", "rows", "done"
    scanRows,    \* rows of the pending query not yet iterated
    spc,         \* ImageProcessor.Shutdown inside once.Do
    shutCalls,   \* calls of ImageProcessor.Shutdown so far
    embClosed,   \* embedder.Close() has run
    \* ---- Hub
    hubDone,     \* close(h.done) has happened
    hubCalls,    \* calls of Hub.Shutdown so far
    runPc,       \* Hub.Run: "select" or "exited"
    clients,     \* h.clients
    cpc,         \* HandleWebSocket per connection
    send,        \* client.send: buffered channel, a sequence of messages
    sendCap,     \* cap(client.send): the capacity the channels are made with
    closeCount,  \* how often close(client.send) was executed
    connClosed,  \* client.conn.Close() was called
    wp,          \* writePump: "none", "run", "exited"
    rp,          \* readPump: "none", "read", "unreg", "exited"
    \* ---- EmbeddingService
    mu,            \* e.mu: the caller holding the lock (0: unlocked)
    inputIDs,      \* the input_ids tensor shared by all calls
    attentionMask, \* the attention_mask tensor shared by all calls
    tokenTypeIDs,  \* the token_type_ids tensor (zero-filled at creation)
    output,        \* the last_hidden_state tensor shared by all calls
    epc,           \* EmbedTags per caller: "idle", "copy", "run", "pool",
                   \* "done"
    etext,         \* the token ids of the text a caller passed
    eres,          \* what EmbedTags returned to the caller
    embOnce,       \* e.once: "fresh", "running" (inside Do), "done"
    released,      \* how often session, tensors and environment were
                   \* destroyed
    kpc,           \* Close per call: "idle", "in" (inside Do), "done"
    \* ---- FeedHandler and the images table as its queries see it
    rows,          \* per row: thumbnail_status, created_at, similarity
    freq,          \* the last feed request: filter, cursor, limit
    fresp,         \* the response to it
    fseen,         \* ids returned so far by the walk that follows cursors
    fcut,          \* a page of the walk was ended early by a read error
                   \* (nothing in the answer shows it)
    fwalk,         \* "idle", or the request just answered: "single" (not
                   \* part of a walk), "open" (a next page can be asked
                   \* for), "ended" (last page of a walk), "broken"
    \* ---- process
    panicked     \* "none" or the panic that ended the process

pipeVars == <<status, jobs, jobsClosed, jobItem, jobState, cbCount, wpc, wjob,
              upc, scanPc, scanRows, spc, shutCalls, embClosed>>
clientVars == <<clients, cpc, send, closeCount, connClosed, wp, rp>>
hubVars == <<hubDone, hubCalls, runPc, clientVars>>
embVars == <<mu, inputIDs, attentionMask, tokenTypeIDs, output, epc, etext,
             eres, embOnce, released, kpc>>
feedVars == <<rows, freq, fresp, fseen, fcut, fwalk>>
\* what the pipeline and the hub never touch
restVars == <<embVars, feedVars, sendCap>>
vars == <<pipeVars, wmsg, hubVars, restVars, panicked>>

\* a tensor of n zeros, as ort.NewTensor allocates it
ZeroTensor(n) == [k \in 1..n |-> 0]

\* no call of EmbedTags has returned to the caller
NoResult == [err |-> "none", vec |-> <<>>]

\* NewEmbeddingService: three zero-filled input tensors and the output
\* tensor of SeqLen vectors, nobody inside EmbedTags or Close
InitEmbedder ==
    /\ mu = 0
    /\ inputIDs = ZeroTensor(SeqLen)
    /\ attentionMask = ZeroTensor(SeqLen)
    /\ tokenTypeIDs = ZeroTensor(SeqLen)
    /\ output = [k \in 1..SeqLen |-> ZeroTensor(Dim)]
    /\ epc = [c \in Callers |-> "idle"]
    /\ etext = [c \in Callers |-> <<>>]
    /\ eres = [c \in Callers |-> NoResult]
    /\ embOnce = "fresh"
    /\ released = 0
    /\ kpc = [k \in CloseCalls |-> "idle"]

\* no row with this id
NoRow == [status |-> "none", createdAt |-> 1, sim |-> 0]

\* no feed request is being looked at
NoRequest == [filter |-> "", cursor |-> "", limit |-> ""]
NoResponse ==
    [ok |-> FALSE, err |-> "none", items |-> <<>>, next |-> "", cut |-> FALSE]

\* no feed request was served yet
InitFeed ==
    /\ freq = NoRequest
    /\ fresp = NoResponse
    /\ fseen = <<>>
    /\ fcut = FALSE
    /\ fwalk = "idle"

(* ---------------------------------------------------------------------- *)
(* Initial state: NewHub, go hub.Run(), NewImageProcessor (workers         *)
(* started, queue empty), a store that may hold rows left pending by an    *)
(* earlier run.                                                            *)
(* ---------------------------------------------------------------------- *)
InitProcess ==
    /\ status \in [Items -> {"none", "pending"}]
    /\ jobs = <<>>
    /\ jobsClosed = FALSE
    /\ jobItem = [j \in JobIds |-> 0]
    /\ jobState = [j \in JobIds |-> "new"]
    /\ cbCount = [j \in JobIds |-> 0]
    /\ wpc = [w \in Workers |-> "recv"]
    /\ wjob = [w \in Workers |-> 0]
    /\ wmsg = [w \in Workers |-> 0]
    /\ upc = [i \in Items |-> "idle"]
    /\ scanPc = "start"
    /\ scanRows = {}
    /\ spc = "idle"
    /\ shutCalls = 0
    /\ embClosed = FALSE
    /\ hubDone = FALSE
    /\ hubCalls = 0
    /\ runPc = "select"
    /\ clients = {}
    /\ cpc = [c \in Clients |-> "none"]
    /\ send = [c \in Clients |-> <<>>]
    /\ closeCount = [c \in Clients |-> 0]
    /\ connClosed = [c \in Clients |-> FALSE]
    /\ wp = [c \in Clients |-> "none"]
    /\ rp = [c \in Clients |-> "none"]
    /\ panicked = "none"
    /\ InitEmbedder
    /\ InitFeed

\* the process started; the feed's view of the table is left empty where no
\* feed request is made
Init ==
    /\ InitProcess
    /\ sendCap = SendCap
    /\ rows = [r \in RowIds |-> NoRow]

\* an unrecovered panic ends the process: no goroutine takes another step
Alive == panicked = "none"

(* ---------------------------------------------------------------------- *)
(* ImageProcessor.Queue                                                    *)
(* ---------------------------------------------------------------------- *)
\* the next unused job id: jobs are numbered in the order of Queue calls
NextJob == Cardinality({j \in JobIds : jobState[j] # "new"}) + 1

\* faulty variant: an off-by-one in the capacity test
QueueHasRoom_OffByOne == Len(jobs) <= QueueCap

\* case p.jobs <- job: can proceed when the buffer has room
QueueHasRoom == Len(jobs) < QueueCap

\* Queue(job) for item i: select { case p.jobs <- job: default: log }
Queue(i) ==
    /\ NextJob \in JobIds
    /\ jobItem' = [jobItem EXCEPT ![NextJob] = i]
    /\ IF jobsClosed
       THEN \* send on closed channel
            /\ panicked' = "Queue: send on closed channel"
            /\ jobState' = [jobState EXCEPT ![NextJob] = "lost"]
            /\ UNCHANGED jobs
       ELSE /\ UNCHANGED panicked
            /\ IF QueueHasRoom
               THEN /\ jobs' = Append(jobs, NextJob)
                    /\ jobState' = [jobState EXCEPT ![NextJob] = "queued"]
               ELSE /\ UNCHANGED jobs
                    /\ jobState' = [jobState EXCEPT ![NextJob] = "dropped"]

(* ---------------------------------------------------------------------- *)
(* Callers of Queue: processUpload and processPending                      *)
(* ---------------------------------------------------------------------- *)
\* processUpload, first half: the duplicate check passes and the row is
\* inserted with thumbnail_status 'pending'
UploadInsert(i) ==
    /\ Alive
    /\ UNCHANGED restVars
    /\ upc[i] = "idle"
    /\ status[i] = "none"
    /\ status' = [status EXCEPT ![i] = "pending"]
    /\ upc' = [upc EXCEPT ![i] = "inserted"]
    /\ UNCHANGED <<jobs, jobsClosed, jobItem, jobState, cbCount, wpc, wjob,
                   scanPc, scanRows, spc, shutCalls, embClosed>>
    /\ UNCHANGED <<wmsg, hubVars, panicked>>

\* processUpload, second half: h.imageProcessor.Queue(job), then the
\* success result is returned whatever Queue did
UploadQueue(i) ==
    /\ Alive
    /\ UNCHANGED restVars
    /\ upc[i] = "inserted"
    /\ Queue(i)
    /\ upc' = [upc EXCEPT ![i] = "done"]
    /\ UNCHANGED <<status, jobsClosed, cbCount, wpc, wjob,
                   scanPc, scanRows, spc, shutCalls, embClosed>>
    /\ UNCHANGED <<wmsg, hubVars>>

\* processPending: SELECT ... WHERE thumbnail_status = 'pending'
ScanQuery ==
    /\ Alive
    /\ UNCHANGED restVars
    /\ scanPc = "start"
    /\ scanRows' = {i \in Items : status[i] = "pending"}
    /\ scanPc' = "rows"
    /\ UNCHANGED <<status, jobs, jobsClosed, jobItem, jobState, cbCount, wpc,
                   wjob, upc, spc, shutCalls, embClosed>>
    /\ UNCHANGED <<wmsg, hubVars, panicked>>

\* processPending: one iteration of rows.Next(): processor.Queue(job)
ScanQueue(i) ==
    /\ Alive
    /\ UNCHANGED restVars
    /\ scanPc = "rows"
    /\ i \in scanRows
    /\ Queue(i)
    /\ scanRows' = scanRows \ {i}
    /\ UNCHANGED <<status, jobsClosed, cbCount, wpc, wjob,
                   upc, scanPc, spc, shutCalls, embClosed>>
    /\ UNCHANGED <<wmsg, hubVars>>

\* processPending: rows.Next() returns false
ScanEnd ==
    /\ Alive
    /\ UNCHANGED restVars
    /\ scanPc = "rows"
    /\ scanRows = {}
    /\ scanPc' = "done"
    /\ UNCHANGED <<status, jobs, jobsClosed, jobItem, jobState, cbCount, wpc,
                   wjob, upc, scanRows, spc, shutCalls, embClosed>>
    /\ UNCHANGED <<wmsg, hubVars, panicked>>

(* ---------------------------------------------------------------------- *)
(* ImageProcessor.worker / processJob / updateStatus                       *)
(* ---------------------------------------------------------------------- *)
\* updateStatus(id, s): the UPDATE either takes effect or fails, and a
\* failure is only logged
updateStatus(id, s, dbOk) ==
    IF dbOk THEN [status EXCEPT ![id] = s] ELSE status

\* faulty variant: the worker reads the oldest job and leaves it in the queue
WorkerRecv_Peek(w) ==
    /\ Alive
    /\ UNCHANGED restVars
    /\ wpc[w] = "recv"
    /\ jobs # <<>>
    /\ wjob' = [wjob EXCEPT ![w] = Head(jobs)]
    /\ jobState' = [jobState EXCEPT ![Head(jobs)] = "running"]
    /\ wpc' = [wpc EXCEPT ![w] = "start"]
    /\ UNCHANGED <<status, jobs, jobsClosed, jobItem, cbCount,
                   upc, scanPc, scanRows, spc, shutCalls, embClosed>>
    /\ UNCHANGED <<wmsg, hubVars, panicked>>

\* for job := range p.jobs: receive the oldest queued job
WorkerRecv(w) ==
    /\ Alive
    /\ UNCHANGED restVars
    /\ wpc[w] = "recv"
    /\ jobs # <<>>
    /\ wjob' = [wjob EXCEPT ![w] = Head(jobs)]
    /\ jobs' = Tail(jobs)
    /\ jobState' = [jobState EXCEPT ![Head(jobs)] = "running"]
    /\ wpc' = [wpc EXCEPT ![w] = "start"]
    /\ UNCHANGED <<status, jobsClosed, jobItem, cbCount,
                   upc, scanPc, scanRows, spc, shutCalls, embClosed>>
    /\ UNCHANGED <<wmsg, hubVars, panicked>>

\* faulty variant: the range loop does not end when the channel is closed
WorkerExit_NeverEnds(w) == FALSE /\ wpc[w] = "recv" /\ UNCHANGED vars

\* the range loop ends: channel closed and drained; defer p.wg.Done()
WorkerExit(w) ==
    /\ Alive
    /\ UNCHANGED restVars
    /\ wpc[w] = "recv"
    /\ jobs = <<>>
    /\ jobsClosed
    /\ wpc' = [wpc EXCEPT ![w] = "exited"]
    /\ UNCHANGED <<status, jobs, jobsClosed, jobItem, jobState, cbCount, wjob,
                   upc, scanPc, scanRows, spc, shutCalls, embClosed>>
    /\ UNCHANGED <<wmsg, hubVars, panicked>>

\* processJob: p.updateStatus(job.FileID, "processing")
JobStart(w) ==
    /\ Alive
    /\ UNCHANGED restVars
    /\ wpc[w] = "start"
    /\ \E dbOk \in BOOLEAN :
          status' = updateStatus(jobItem[wjob[w]], "processing", dbOk)
    /\ wpc' = [wpc EXCEPT ![w] = "thumb"]
    /\ UNCHANGED <<jobs, jobsClosed, jobItem, jobState, cbCount, wjob,
                   upc, scanPc, scanRows, spc, shutCalls, embClosed>>
    /\ UNCHANGED <<wmsg, hubVars, panicked>>

\* processJob: createThumbnail succeeds or returns an error
JobThumbnail(w) ==
    /\ Alive
    /\ UNCHANGED restVars
    /\ wpc[w] = "thumb"
    /\ \E ok \in BOOLEAN :
          wpc' = [wpc EXCEPT ![w] = IF ok THEN "embed" ELSE "fail"]
    /\ UNCHANGED <<status, jobs, jobsClosed, jobItem, jobState, cbCount, wjob,
                   upc, scanPc, scanRows, spc, shutCalls, embClosed>>
    /\ UNCHANGED <<wmsg, hubVars, panicked>>

\* processJob: p.embedder.EmbedTags succeeds or returns an error
JobEmbed(w) ==
    /\ Alive
    /\ UNCHANGED restVars
    /\ wpc[w] = "embed"
    /\ \E ok \in BOOLEAN :
          wpc' = [wpc EXCEPT ![w] = IF ok THEN "update" ELSE "fail"]
    /\ UNCHANGED <<status, jobs, jobsClosed, jobItem, jobState, cbCount, wjob,
                   upc, scanPc, scanRows, spc, shutCalls, embClosed>>
    /\ UNCHANGED <<wmsg, hubVars, panicked>>

\* processJob: UPDATE images SET thumbnail_path, thumbnail_status = 'ready',
\* embedding; on success processJob returns nil
JobUpdate(w) ==
    /\ Alive
    /\ UNCHANGED restVars
    /\ wpc[w] = "update"
    /\ \E dbOk \in BOOLEAN :
          /\ status' = updateStatus(jobItem[wjob[w]], "ready", dbOk)
          /\ wpc' = [wpc EXCEPT ![w] = IF dbOk THEN "complete" ELSE "fail"]
    /\ UNCHANGED <<jobs, jobsClosed, jobItem, jobState, cbCount, wjob,
                   upc, scanPc, scanRows, spc, shutCalls, embClosed>>
    /\ UNCHANGED <<wmsg, hubVars, panicked>>

\* worker, processJob returned an error: p.updateStatus(job.FileID, "failed")
JobFail(w) ==
    /\ Alive
    /\ UNCHANGED restVars
    /\ wpc[w] = "fail"
    /\ \E dbOk \in BOOLEAN :
          status' = updateStatus(jobItem[wjob[w]], "failed", dbOk)
    /\ jobState' = [jobState EXCEPT ![wjob[w]] = "failed"]
    /\ wpc' = [wpc EXCEPT ![w] = "recv"]
    /\ wjob' = [wjob EXCEPT ![w] = 0]
    /\ UNCHANGED <<jobs, jobsClosed, jobItem, cbCount,
                   upc, scanPc, scanRows, spc, shutCalls, embClosed>>
    /\ UNCHANGED <<wmsg, hubVars, panicked>>

\* worker, processJob returned nil: p.onComplete(job), which builds the
\* ws.Message for job.FileID and enters hub.Broadcast
JobComplete(w) ==
    /\ Alive
    /\ UNCHANGED restVars
    /\ wpc[w] = "complete"
    /\ cbCount' = [cbCount EXCEPT ![wjob[w]] = @ + 1]
    /\ wmsg' = [wmsg EXCEPT ![w] = jobItem[wjob[w]]]
    /\ wpc' = [wpc EXCEPT ![w] = "broadcast"]
    /\ UNCHANGED <<status, jobs, jobsClosed, jobItem, jobState, wjob,
                   upc, scanPc, scanRows, spc, shutCalls, embClosed>>
    /\ UNCHANGED <<hubVars, panicked>>

\* hub.Broadcast returned to the worker: onComplete returns and the worker
\* goes back to the range loop
CallbackReturn(w) ==
    /\ wpc' = [wpc EXCEPT ![w] = "recv"]
    /\ wmsg' = [wmsg EXCEPT ![w] = 0]
    /\ IF wjob[w] # 0
       THEN /\ jobState' = [jobState EXCEPT ![wjob[w]] = "ok"]
            /\ wjob' = [wjob EXCEPT ![w] = 0]
       ELSE UNCHANGED <<jobState, wjob>>

(* ---------------------------------------------------------------------- *)
(* ImageProcessor.Shutdown: p.once.Do(close(p.jobs); p.wg.Wait();          *)
(* p.embedder.Close()). main calls it twice from one goroutine.            *)
(* ---------------------------------------------------------------------- *)
\* the first call enters once.Do and closes the channel; a later call finds
\* the Once done and returns at once
ShutdownCall ==
    /\ Alive
    /\ UNCHANGED restVars
    /\ shutCalls < MaxShutdowns
    /\ spc \in {"idle", "returned"}
    /\ shutCalls' = shutCalls + 1
    /\ IF spc = "idle"
       THEN /\ jobsClosed' = TRUE
            /\ spc' = "wait"
       ELSE UNCHANGED <<jobsClosed, spc>>
    /\ UNCHANGED <<status, jobs, jobItem, jobState, cbCount, wpc, wjob,
                   upc, scanPc, scanRows, embClosed>>
    /\ UNCHANGED <<wmsg, hubVars, panicked>>

\* faulty variant: Shutdown does not wait for the workers
WaitReturns_NoWait == TRUE

\* p.wg.Wait() returns once every worker has run its deferred wg.Done()
WaitReturns == \A w \in Workers : wpc[w] = "exited"

ShutdownWait ==
    /\ Alive
    /\ UNCHANGED restVars
    /\ spc = "wait"
    /\ WaitReturns
    /\ spc' = "closing"
    /\ UNCHANGED <<status, jobs, jobsClosed, jobItem, jobState, cbCount, wpc,
                   wjob, upc, scanPc, scanRows, shutCalls, embClosed>>
    /\ UNCHANGED <<wmsg, hubVars, panicked>>

\* p.embedder.Close(), then once.Do and Shutdown return
ShutdownClose ==
    /\ Alive
    /\ UNCHANGED restVars
    /\ spc = "closing"
    /\ embClosed' = TRUE
    /\ spc' = "returned"
    /\ UNCHANGED <<status, jobs, jobsClosed, jobItem, jobState, cbCount, wpc,
                   wjob, upc, scanPc, scanRows, shutCalls>>
    /\ UNCHANGED <<wmsg, hubVars, panicked>>

(* ---------------------------------------------------------------------- *)
(* Hub                                                                     *)
(* ---------------------------------------------------------------------- *)
\* Hub.Shutdown: close(h.done); closing a closed channel panics
HubShutdown ==
    /\ Alive
    /\ UNCHANGED restVars
    /\ hubCalls < MaxHubShutdowns
    /\ hubCalls' = hubCalls + 1
    /\ IF hubDone
       THEN panicked' = "Hub.Shutdown: close of closed channel"
       ELSE UNCHANGED panicked
    /\ hubDone' = TRUE
    /\ UNCHANGED <<runPc, clientVars, pipeVars, wmsg>>

\* HandleWebSocket: the upgrade succeeded, the Client is built with its own
\* send channel, and the goroutine parks in hub.register <- client
Connect(c) ==
    /\ Alive
    /\ UNCHANGED restVars
    /\ cpc[c] = "none"
    /\ cpc' = [cpc EXCEPT ![c] = "registering"]
    /\ UNCHANGED <<clients, send, closeCount, connClosed, wp, rp>>
    /\ UNCHANGED <<hubDone, hubCalls, runPc, pipeVars, wmsg, panicked>>

\* Run, case client := <-h.register; HandleWebSocket then starts both pumps
RunRegister(c) ==
    /\ Alive
    /\ UNCHANGED restVars
    /\ runPc = "select"
    /\ cpc[c] = "registering"
    /\ clients' = clients \cup {c}
    /\ cpc' = [cpc EXCEPT ![c] = "active"]
    /\ wp' = [wp EXCEPT ![c] = "run"]
    /\ rp' = [rp EXCEPT ![c] = "read"]
    /\ UNCHANGED <<send, closeCount, connClosed>>
    /\ UNCHANGED <<hubDone, hubCalls, runPc, pipeVars, wmsg, panicked>>

\* faulty variant: the membership test is missing
UnregisterGuard_Missing(c) == TRUE

\* if _, ok := h.clients[client]; ok
UnregisterGuard(c) == c \in clients

\* Run, case client := <-h.unregister; the readPump's deferred function then
\* goes on to c.conn.Close()
RunUnregister(c) ==
    /\ Alive
    /\ UNCHANGED restVars
    /\ runPc = "select"
    /\ rp[c] = "unreg"
    /\ IF UnregisterGuard(c)
       THEN /\ clients' = clients \ {c}
            /\ closeCount' = [closeCount EXCEPT ![c] = @ + 1]
            /\ panicked' = IF closeCount[c] > 0
                           THEN "Run: close of closed channel" ELSE panicked
       ELSE UNCHANGED <<clients, closeCount, panicked>>
    /\ rp' = [rp EXCEPT ![c] = "exited"]
    /\ connClosed' = [connClosed EXCEPT ![c] = TRUE]
    /\ UNCHANGED <<cpc, send, wp>>
    /\ UNCHANGED <<hubDone, hubCalls, runPc, pipeVars, wmsg>>

\* case client.send <- data: can proceed when the buffer has room
SendHasRoom(c) == Len(send[c]) < sendCap

\* faulty variant: the message overtakes the ones that wait in the buffer
Enqueue_AtFront(q, msg) == <<msg>> \o q

\* client.send <- data: a channel is first in, first out
Enqueue(q, msg) == Append(q, msg)

\* faulty variant: a full subscriber is skipped but stays registered
Evicted_None == {}

\* the clients the fan-out loop evicts: default: close(client.send); delete
Evicted == {c \in clients : ~SendHasRoom(c)}

\* faulty variant: an evicted client has its buffer closed but stays in the map
Remaining_KeepsEvicted == clients

\* delete(h.clients, client) for every evicted client
Remaining == clients \ Evicted

\* Run, case msg := <-h.broadcast, with the Broadcast call of worker w as the
\* sender: the call returns and the message is fanned out. Not after
\* close(h.done): the close commits a parked Broadcast to its done case, and
\* a later Broadcast finds no receiver parked on h.broadcast and done ready
RunBroadcast(w) ==
    /\ Alive
    /\ UNCHANGED restVars
    /\ runPc = "select"
    /\ wpc[w] = "broadcast"
    /\ ~hubDone
    /\ CallbackReturn(w)
    /\ send' = [c \in Clients |->
                  IF c \in clients /\ SendHasRoom(c) /\ closeCount[c] = 0
                  THEN Enqueue(send[c], wmsg[w]) ELSE send[c]]
    /\ closeCount' = [c \in Clients |->
                  IF c \in Evicted THEN closeCount[c] + 1 ELSE closeCount[c]]
    /\ clients' = Remaining
    /\ panicked' = IF \E c \in clients : closeCount[c] > 0
                   THEN "Run: send on closed channel" ELSE panicked
    /\ UNCHANGED <<cpc, connClosed, wp, rp>>
    /\ UNCHANGED <<hubDone, hubCalls, runPc>>
    /\ UNCHANGED <<status, jobs, jobsClosed, jobItem, cbCount,
                   upc, scanPc, scanRows, spc, shutCalls, embClosed>>

\* faulty variant: Broadcast without the done case: the send on h.broadcast is all
\* there is, and nobody receives once Run has returned
BroadcastDropped_NoDoneCase(w) == FALSE /\ wpc[w] = "broadcast" /\ UNCHANGED vars

\* Hub.Broadcast, case <-h.done: the call returns, the message goes nowhere
BroadcastDropped(w) ==
    /\ Alive
    /\ UNCHANGED restVars
    /\ wpc[w] = "broadcast"
    /\ hubDone
    /\ CallbackReturn(w)
    /\ UNCHANGED <<hubVars, panicked>>
    /\ UNCHANGED <<status, jobs, jobsClosed, jobItem, cbCount,
                   upc, scanPc, scanRows, spc, shutCalls, embClosed>>

\* faulty variant: the done case returns without touching the clients
RunDone_NoTeardown ==
    /\ Alive
    /\ UNCHANGED restVars
    /\ runPc = "select"
    /\ hubDone
    /\ runPc' = "exited"
    /\ UNCHANGED <<clientVars, hubDone, hubCalls, pipeVars, wmsg, panicked>>

\* Run, case <-h.done: close every client's send and conn, empty the map,
\* return
RunDone ==
    /\ Alive
    /\ UNCHANGED restVars
    /\ runPc = "select"
    /\ hubDone
    /\ closeCount' = [c \in Clients |->
                  IF c \in clients THEN closeCount[c] + 1 ELSE closeCount[c]]
    /\ connClosed' = [c \in Clients |-> connClosed[c] \/ c \in clients]
    /\ panicked' = IF \E c \in clients : closeCount[c] > 0
                   THEN "Run: close of closed channel" ELSE panicked
    /\ clients' = {}
    /\ runPc' = "exited"
    /\ UNCHANGED <<cpc, send, wp, rp>>
    /\ UNCHANGED <<hubDone, hubCalls, pipeVars, wmsg>>

\* writePump: for msg := range c.send, then c.conn.WriteMessage, which
\* fails on a closed connection and may fail on a live one
WritePumpWrite(c) ==
    /\ Alive
    /\ UNCHANGED restVars
    /\ wp[c] = "run"
    /\ send[c] # <<>>
    /\ send' = [send EXCEPT ![c] = Tail(@)]
    /\ \E ok \in BOOLEAN :
          /\ connClosed[c] => ~ok
          /\ IF ok
             THEN UNCHANGED <<wp, connClosed>>
             ELSE /\ wp' = [wp EXCEPT ![c] = "exited"]
                  /\ connClosed' = [connClosed EXCEPT ![c] = TRUE]
    /\ UNCHANGED <<clients, cpc, closeCount, rp>>
    /\ UNCHANGED <<hubDone, hubCalls, runPc, pipeVars, wmsg, panicked>>

\* writePump: the range ends on a closed, drained channel; defer conn.Close
WritePumpExit(c) ==
    /\ Alive
    /\ UNCHANGED restVars
    /\ wp[c] = "run"
    /\ send[c] = <<>>
    /\ closeCount[c] > 0
    /\ wp' = [wp EXCEPT ![c] = "exited"]
    /\ connClosed' = [connClosed EXCEPT ![c] = TRUE]
    /\ UNCHANGED <<clients, cpc, send, closeCount, rp>>
    /\ UNCHANGED <<hubDone, hubCalls, runPc, pipeVars, wmsg, panicked>>

\* readPump: ReadMessage returns an error (the peer went away, or the
\* connection was closed on this side); the deferred function parks in
\* c.hub.unregister <- c
ReadPumpError(c) ==
    /\ Alive
    /\ UNCHANGED restVars
    /\ rp[c] = "read"
    /\ rp' = [rp EXCEPT ![c] = "unreg"]
    /\ UNCHANGED <<clients, cpc, send, closeCount, connClosed, wp>>
    /\ UNCHANGED <<hubDone, hubCalls, runPc, pipeVars, wmsg, panicked>>

\* a caller of the completion callback as the hub sees it: some worker
\* finished a job for item i and calls hub.Broadcast
CallBroadcast(w, i) ==
    /\ Alive
    /\ UNCHANGED restVars
    /\ wpc[w] = "recv"
    /\ wjob[w] = 0
    /\ wmsg' = [wmsg EXCEPT ![w] = i]
    /\ wpc' = [wpc EXCEPT ![w] = "broadcast"]
    /\ UNCHANGED <<status, jobs, jobsClosed, jobItem, jobState, cbCount, wjob,
                   upc, scanPc, scanRows, spc, shutCalls, embClosed>>
    /\ UNCHANGED <<hubVars, panicked>>

(* ---------------------------------------------------------------------- *)
(* Tokenizer.Encode and the arithmetic of EmbedTags                        *)
(* ---------------------------------------------------------------------- *)
\* a text is represented by the ids t.tk.Encode(text, true) yields for it:
\* any number of ids from none to more than the window holds
TokenSeqs == UNION {[1..n -> 1..NumTokens] : n \in 0..(SeqLen + 1)}

\* Tokenizer.Encode(text, maxLen): two fresh arrays of maxLen entries, the
\* first min(len(ids), maxLen) filled with the ids and with 1
Encode(ids, maxLen) ==
    [inputIDs |-> [k \in 1..maxLen |-> IF k <= Len(ids) THEN ids[k] ELSE 0],
     mask |-> [k \in 1..maxLen |-> IF k <= Len(ids) THEN 1 ELSE 0]]

\* faulty variant: only the real tokens are copied, the padding is skipped
Copy_SkipsPadding(dst, src) ==
    [k \in 1..Len(dst) |->
        IF k <= Len(src) /\ src[k] # 0 THEN src[k] ELSE dst[k]]

\* copy(dst, src): the first min(len) entries of dst are overwritten
Copy(dst, src) ==
    [k \in 1..Len(dst) |-> IF k <= Len(src) THEN src[k] ELSE dst[k]]

RECURSIVE SumSeq(_)
\* the sum of a sequence of integers
SumSeq(q) == IF q = <<>> THEN 0 ELSE Head(q) + SumSeq(Tail(q))

RECURSIVE ProdSeq(_)
\* the product of a sequence of integers
ProdSeq(q) == IF q = <<>> THEN 1 ELSE Head(q) * ProdSeq(Tail(q))

RECURSIVE Gcd(_, _)
\* greatest common divisor of two naturals
Gcd(a, b) == IF b = 0 THEN a ELSE Gcd(b, a % b)

\* absolute value
Abs(n) == IF n < 0 THEN 0 - n ELSE n

\* the hidden state the network gives a token on its own; the network is
\* not part of the repository, this stand-in keeps that it is a fixed
\* function and that some text pools to the zero vector
WordVec(t) ==
    [d \in 1..Dim |->
        IF t = 0 THEN 0
        ELSE IF t = 1 THEN (IF d = 1 THEN 0 - 1 ELSE 0)
        ELSE t * d - 1]

\* e.session.Run(): the output tensor is a function of the three input
\* tensors as they are at the call; every position's vector depends on its
\* own token and on all attended tokens
Run(ids, mask, types) ==
    LET ctx == SumSeq([k \in 1..Len(ids) |-> mask[k] * ids[k] + types[k]])
    IN  [i \in 1..Len(ids) |->
            [d \in 1..Dim |->
                WordVec(ids[i])[d] + (IF d = 1 THEN ctx ELSE 0)]]

\* a float that is a number: num / (den * sqrt(sq))
Fin(n, d, q) == [kind |-> "fin", num |-> n, den |-> d, sq |-> q]

\* a float that is not a number: kind is "nan", "+inf" or "-inf" ("junk":
\* a value read from freed memory)
NonNum(k) == [kind |-> k, num |-> 0, den |-> 0, sq |-> 0]

\* float division of n by d, with what IEEE 754 gives for a zero divisor
FDiv(n, d) ==
    IF d # 0 THEN Fin(n, d, 1)
    ELSE IF n = 0 THEN NonNum("nan")
    ELSE IF n > 0 THEN NonNum("+inf") ELSE NonNum("-inf")

\* a float that is a number
Finite(x) == x.kind = "fin"

\* meanPooling: count, the number of positions with mask[i] != 0
PoolCount(mask, seqLen) == Cardinality({i \in 1..seqLen : mask[i] # 0})

\* faulty variant: the sum is divided by the length of the window
meanPooling_DividesBySeqLen(out, mask, seqLen, dim) ==
    LET sum(j) == SumSeq([i \in 1..seqLen |->
                             IF mask[i] = 0 THEN 0 ELSE out[i][j]])
    IN  [j \in 1..dim |-> FDiv(sum(j), seqLen)]

\* meanPooling(output, mask, seqLen, dim): the vectors of the unmasked
\* positions are added up and every component is divided by their number
meanPooling(out, mask, seqLen, dim) ==
    LET count == PoolCount(mask, seqLen)
        sum(j) == SumSeq([i \in 1..seqLen |->
                             IF mask[i] = 0 THEN 0 ELSE out[i][j]])
    IN  [j \in 1..dim |-> FDiv(sum(j), count)]

\* normalize(v): every component is divided by the square root of the sum
\* of squares; a zero or non-finite norm leaves non-numbers behind
normalize(v) ==
    LET n == Len(v)
        den == ProdSeq([k \in 1..n |-> IF Finite(v[k]) THEN v[k].den ELSE 1])
        \* the components over the common denominator den
        num(k) == v[k].num * (den \div v[k].den)
        g == LET RECURSIVE G(_)
                 G(k) == IF k = 0 THEN 0 ELSE Gcd(Abs(num(k)), G(k - 1))
             IN  G(n)
        sq == SumSeq([k \in 1..n |-> (num(k) \div g) * (num(k) \div g)])
    IN  IF \E k \in 1..n : v[k].kind = "nan"
        THEN [k \in 1..n |-> NonNum("nan")]
        ELSE IF \E k \in 1..n : ~Finite(v[k])
        THEN \* the norm is +Inf
             [k \in 1..n |-> IF Finite(v[k]) THEN Fin(0, 1, 1)
                             ELSE NonNum("nan")]
        ELSE IF g = 0
        THEN \* the norm is 0, every component is 0/0
             [k \in 1..n |-> NonNum("nan")]
        ELSE [k \in 1..n |-> Fin(num(k) \div g, 1, sq)]

\* the pooled vector EmbedTags(text) computes on freshly created tensors
PoolFresh(ids) ==
    LET enc == Encode(ids, SeqLen)
        out == Run(Copy(ZeroTensor(SeqLen), enc.inputIDs),
                   Copy(ZeroTensor(SeqLen), enc.mask), ZeroTensor(SeqLen))
    IN  meanPooling(out, enc.mask, SeqLen, Dim)

\* the value EmbedTags(text) has on freshly created tensors
EmbedFresh(ids) == normalize(PoolFresh(ids))

(* ---------------------------------------------------------------------- *)
(* EmbeddingService.EmbedTags, one call per caller at a time               *)
(* ---------------------------------------------------------------------- *)
\* everything but the embedding service
nonEmbVars == <<pipeVars, wmsg, hubVars, sendCap, feedVars, panicked>>

\* faulty variant: EmbedTags without the lock
MuFree_NoLock == TRUE

\* e.mu.Lock() can proceed
MuFree == mu = 0

\* session, tensors and environment exist: Close has not begun to destroy
\* them
SessionLive == embOnce = "fresh"

\* EmbedTags: e.mu.Lock() is acquired; the text is joined and tokenized
EmbedLock(c, ids) ==
    /\ Alive
    /\ epc[c] = "idle"
    /\ MuFree
    /\ mu' = c
    /\ etext' = [etext EXCEPT ![c] = ids]
    /\ epc' = [epc EXCEPT ![c] = "copy"]
    /\ UNCHANGED <<inputIDs, attentionMask, tokenTypeIDs, output, eres,
                   embOnce, released, kpc>>
    /\ UNCHANGED nonEmbVars

\* EmbedTags: copy(e.inputIDs.GetData(), inputIDs) and
\* copy(e.attentionMask.GetData(), attentionMask)
EmbedCopy(c) ==
    /\ Alive
    /\ epc[c] = "copy"
    /\ SessionLive
    /\ inputIDs' = Copy(inputIDs, Encode(etext[c], SeqLen).inputIDs)
    /\ attentionMask' = Copy(attentionMask, Encode(etext[c], SeqLen).mask)
    /\ epc' = [epc EXCEPT ![c] = "run"]
    /\ UNCHANGED <<mu, tokenTypeIDs, output, etext, eres, embOnce, released,
                   kpc>>
    /\ UNCHANGED nonEmbVars

\* EmbedTags: e.session.Run() fills the output tensor, or fails and the
\* call returns the error (the deferred Unlock runs)
EmbedRun(c) ==
    /\ Alive
    /\ epc[c] = "run"
    /\ SessionLive
    /\ \E ok \in BOOLEAN :
          IF ok
          THEN /\ output' = Run(inputIDs, attentionMask, tokenTypeIDs)
               /\ epc' = [epc EXCEPT ![c] = "pool"]
               /\ UNCHANGED <<mu, eres>>
          ELSE /\ eres' = [eres EXCEPT ![c] =
                              [err |-> "inference", vec |-> <<>>]]
               /\ mu' = 0
               /\ epc' = [epc EXCEPT ![c] = "done"]
               /\ UNCHANGED output
    /\ UNCHANGED <<inputIDs, attentionMask, tokenTypeIDs, etext, embOnce,
                   released, kpc>>
    /\ UNCHANGED nonEmbVars

\* EmbedTags: meanPooling over e.output.GetData() with the call's own mask,
\* normalize, return embedding, nil (the deferred Unlock runs)
EmbedPool(c) ==
    /\ Alive
    /\ epc[c] = "pool"
    /\ SessionLive
    /\ eres' = [eres EXCEPT ![c] =
                   [err |-> "",
                    vec |-> normalize(meanPooling(output,
                                Encode(etext[c], SeqLen).mask, SeqLen, Dim))]]
    /\ mu' = 0
    /\ epc' = [epc EXCEPT ![c] = "done"]
    /\ UNCHANGED <<inputIDs, attentionMask, tokenTypeIDs, output, etext,
                   embOnce, released, kpc>>
    /\ UNCHANGED nonEmbVars

\* the caller has taken the result; it may call again
EmbedReturn(c) ==
    /\ Alive
    /\ epc[c] = "done"
    /\ epc' = [epc EXCEPT ![c] = "idle"]
    /\ etext' = [etext EXCEPT ![c] = <<>>]
    /\ eres' = [eres EXCEPT ![c] = NoResult]
    /\ UNCHANGED <<mu, inputIDs, attentionMask, tokenTypeIDs, output,
                   embOnce, released, kpc>>
    /\ UNCHANGED nonEmbVars

\* EmbedTags reaches the tensors or the session after Close has begun to
\* destroy them (Close does not take e.mu): the behaviour is undefined, the
\* process crashes, or the call returns an error, or it returns whatever
\* the freed memory held
EmbedAfterClose(c) ==
    /\ Alive
    /\ epc[c] \in {"copy", "run", "pool"}
    /\ ~SessionLive
    /\ \E outcome \in {"crash", "error", "garbage"} :
          IF outcome = "crash"
          THEN /\ panicked' = "EmbedTags: use of a destroyed session"
               /\ UNCHANGED <<mu, epc, eres>>
          ELSE /\ eres' = [eres EXCEPT ![c] =
                              IF outcome = "error"
                              THEN [err |-> "inference", vec |-> <<>>]
                              ELSE [err |-> "",
                                    vec |-> [j \in 1..Dim |->
                                                NonNum("junk")]]]
               /\ mu' = 0
               /\ epc' = [epc EXCEPT ![c] = "done"]
               /\ UNCHANGED panicked
    /\ UNCHANGED <<inputIDs, attentionMask, tokenTypeIDs, output, etext,
                   embOnce, released, kpc>>
    /\ UNCHANGED <<pipeVars, wmsg, hubVars, sendCap, feedVars>>

(* ---------------------------------------------------------------------- *)
(* EmbeddingService.Close: e.once.Do(destroy session, tensors,             *)
(* environment)                                                            *)
(* ---------------------------------------------------------------------- *)
\* faulty variant: Close without the Once
OnceFresh_Always == TRUE

\* once.Do runs its function: no call has entered it before
OnceFresh == embOnce = "fresh"

\* Close is called: the first call enters the function; a call that finds
\* another one inside blocks until that one is through; a later call
\* returns at once
CloseCall(k) ==
    /\ Alive
    /\ kpc[k] = "idle"
    /\ embOnce # "running" \/ OnceFresh
    /\ IF OnceFresh
       THEN /\ embOnce' = "running"
            /\ kpc' = [kpc EXCEPT ![k] = "in"]
       ELSE /\ kpc' = [kpc EXCEPT ![k] = "done"]
            /\ UNCHANGED embOnce
    /\ UNCHANGED <<mu, inputIDs, attentionMask, tokenTypeIDs, output, epc,
                   etext, eres, released>>
    /\ UNCHANGED nonEmbVars

\* inside once.Do: session.Destroy(), the four tensors' Destroy(),
\* ort.DestroyEnvironment(); the Once is marked done
CloseRelease(k) ==
    /\ Alive
    /\ kpc[k] = "in"
    /\ released' = released + 1
    /\ embOnce' = "done"
    /\ kpc' = [kpc EXCEPT ![k] = "done"]
    /\ UNCHANGED <<mu, inputIDs, attentionMask, tokenTypeIDs, output, epc,
                   etext, eres>>
    /\ UNCHANGED nonEmbVars

(* ---------------------------------------------------------------------- *)
(* FeedHandler: Feed, normalFeed, filteredFeed                             *)
(* ---------------------------------------------------------------------- *)
\* limit := 20
DefaultLimit == 20
\* l <= 50
MaxLimit == 50
\* 1 - (embedding <=> $1) > 0.3, in hundredths
SimThreshold == 30

\* similarities of a row's embedding to the filter's, in hundredths
Sims == {SimThreshold - 1, SimThreshold, SimThreshold + 1, SimThreshold + 20}

\* thumbnail_status of a row that is not ready
Unfinished == {"pending", "processing", "failed"}

\* the rows a table can hold: ids are handed out in insertion order and
\* created_at is the insertion time, so created_at never decreases with the
\* id; two rows can carry the same created_at. A row that is not ready is
\* given the embedding closest to the filter, the one only the status
\* condition keeps out of a page.
Tables ==
    {t \in [RowIds -> [status : {"ready"} \cup Unfinished,
                       createdAt : Times, sim : Sims]] :
        /\ \A r, q \in RowIds : r < q => t[r].createdAt <= t[q].createdAt
        /\ \A r \in RowIds :
              t[r].status \in Unfinished => t[r].sim = SimThreshold + 20}

\* CreatedAt.Format(time.RFC3339Nano): the text of a timestamp
FormatTime(t) == "T" \o ToString(t)

\* time.Parse(time.RFC3339Nano, cursor): the timestamp the text denotes,
\* or an error
ParseTime(c) ==
    IF \E t \in Times : FormatTime(t) = c
    THEN [ok |-> TRUE, t |-> CHOOSE t \in Times : FormatTime(t) = c]
    ELSE [ok |-> FALSE, t |-> 0]

\* the numbers a limit parameter is tried with
LimitInts == {0, 1, 2, MaxLimit + 1}

\* strconv.Atoi(limitStr)
Atoi(str) ==
    IF \E n \in LimitInts : ToString(n) = str
    THEN [ok |-> TRUE, n |-> CHOOSE n \in LimitInts : ToString(n) = str]
    ELSE [ok |-> FALSE, n |-> 0]

\* Feed: limit is 20 unless the parameter parses to a number in 1..50
EffectiveLimit(limitStr) ==
    LET l == Atoi(limitStr)
    IN  IF limitStr # "" /\ l.ok /\ l.n > 0 /\ l.n <= MaxLimit
        THEN l.n ELSE DefaultLimit

\* query parameters a request can carry
Filters == {"", "tag"}
Cursors == {"", "bad"} \cup {FormatTime(t) : t \in Times}
LimitStrs == {"", "x"} \cup {ToString(n) : n \in LimitInts}

\* faulty variant: the cursor's own timestamp is let through
OlderThan_OrEqual(t, c) == t <= c

\* AND created_at < $cursor
OlderThan(t, c) == t < c

\* faulty variant: the threshold itself is let through
AboveThreshold_OrEqual(s) == s >= SimThreshold

\* AND 1 - (embedding <=> $1) > 0.3
AboveThreshold(s) == s > SimThreshold

\* faulty variant: the status condition is missing
Selected_AnyStatus(filtered, hasCursor, cursorTime) ==
    {r \in RowIds :
        /\ filtered => AboveThreshold(rows[r].sim)
        /\ hasCursor => OlderThan(rows[r].createdAt, cursorTime)}

\* the WHERE clause of the four queries; hasCursor tells whether the
\* created_at condition is part of it
Selected(filtered, hasCursor, cursorTime) ==
    {r \in RowIds :
        /\ rows[r].status = "ready"
        /\ filtered => AboveThreshold(rows[r].sim)
        /\ hasCursor => OlderThan(rows[r].createdAt, cursorTime)}

\* the ORDER BY column: similarity in filtered mode, created_at otherwise
SortKey(filtered, r) == IF filtered THEN rows[r].sim ELSE rows[r].createdAt

\* ORDER BY ... DESC LIMIT n: every order of the selected rows that
\* descends in the sort column (rows that tie come in any order), cut
\* after n rows
QueryResults(sel, filtered, n) ==
    LET m == Cardinality(sel)
        orders == {s \in [1..m -> sel] :
                     /\ \A k, l \in 1..m : k # l => s[k] # s[l]
                     /\ \A k, l \in 1..m :
                           k < l => SortKey(filtered, s[k])
                                       >= SortKey(filtered, s[l])}
    IN  {SubSeq(s, 1, IF m < n THEN m ELSE n) : s \in orders}

\* faulty variant: a cursor is returned with every page that has items
NextCursor_NonEmptyPage(items, limit) ==
    IF Len(items) > 0
    THEN FormatTime(rows[items[Len(items)]].createdAt) ELSE ""

\* Feed: nextCursor is set when len(items) == limit
NextCursor(items, limit) ==
    IF Len(items) = limit
    THEN FormatTime(rows[items[Len(items)]].createdAt) ELSE ""

\* http.Error(w, "query failed", 500): no items, no cursor
Failure(why) ==
    [ok |-> FALSE, err |-> why, items |-> <<>>, next |-> "", cut |-> FALSE]

\* the JSON body: items and next_cursor (cut: the loop over the rows was
\* ended by a read error, which the body does not tell)
Page(items, limit, cut) ==
    [ok |-> TRUE, err |-> "", items |-> items,
     next |-> NextCursor(items, limit), cut |-> cut]

\* everything Feed can answer to a request. The embedding of the filter
\* can fail, the cursor can be unparseable, the query can fail, a row's
\* Scan can fail; and rows.Next() can end the loop early on a read error,
\* which scanFeedItems never looks at (rows.Err() is not called), so the
\* rows read so far are the page.
FeedResponses(filter, cursor, limitStr) ==
    LET limit == EffectiveLimit(limitStr)
        filtered == filter # ""
        ct == ParseTime(cursor)
        results == QueryResults(Selected(filtered, cursor # "", ct.t),
                                filtered, limit)
    IN  (IF filtered THEN {Failure("embed filter")} ELSE {})
        \cup
        (IF cursor # "" /\ ~ct.ok
         THEN {Failure("invalid cursor")}
         ELSE {Failure("query")}
              \cup (IF \E s \in results : Len(s) > 0
                    THEN {Failure("scan")} ELSE {})
              \cup UNION {{Page(SubSeq(s, 1, n), limit, n < Len(s)) :
                              n \in 0..Len(s)} : s \in results})

\* everything but the feed handler's state
nonFeedVars == <<pipeVars, wmsg, hubVars, sendCap, embVars, panicked>>

\* Feed serves a request. A request without a cursor that is answered with
\* a page begins a walk along the cursors. Feed keeps nothing between
\* requests, so they are looked at one after the other.
FeedRequest(filter, cursor, limitStr) ==
    /\ Alive
    /\ fwalk = "idle"
    /\ \E resp \in FeedResponses(filter, cursor, limitStr) :
          /\ fresp' = resp
          /\ fseen' = resp.items
          /\ fcut' = resp.cut
          /\ fwalk' = IF cursor # "" \/ ~resp.ok THEN "single"
                      ELSE IF resp.next = "" THEN "ended" ELSE "open"
    /\ freq' = [filter |-> filter, cursor |-> cursor, limit |-> limitStr]
    /\ UNCHANGED rows
    /\ UNCHANGED nonFeedVars

\* the client asks for the next page: same filter and limit, the cursor
\* is the next_cursor of the page before
FeedFollow ==
    /\ Alive
    /\ fwalk = "open"
    /\ \E resp \in FeedResponses(freq.filter, fresp.next, freq.limit) :
          /\ fresp' = resp
          /\ fseen' = IF resp.ok THEN fseen \o resp.items ELSE fseen
          /\ fcut' = (fcut \/ resp.cut)
          /\ fwalk' = IF ~resp.ok THEN "broken"
                      ELSE IF resp.next = "" THEN "ended" ELSE "open"
    /\ freq' = [freq EXCEPT !.cursor = fresp.next]
    /\ UNCHANGED rows
    /\ UNCHANGED nonFeedVars

\* the client is through with the answer (and with the walk)
FeedDone ==
    /\ Alive
    /\ fwalk # "idle"
    /\ freq' = NoRequest
    /\ fresp' = NoResponse
    /\ fseen' = <<>>
    /\ fcut' = FALSE
    /\ fwalk' = "idle"
    /\ UNCHANGED rows
    /\ UNCHANGED nonFeedVars

(* ---------------------------------------------------------------------- *)
(* Specifications                                                          *)
(* ---------------------------------------------------------------------- *)
PipelineStep ==
    \/ \E i \in Items : UploadInsert(i)
    \/ \E i \in Items : UploadQueue(i)
    \/ ScanQuery
    \/ \E i \in Items : ScanQueue(i)
    \/ ScanEnd
    \/ \E w \in Workers : WorkerRecv(w)
    \/ \E w \in Workers : WorkerExit(w)
    \/ \E w \in Workers : JobStart(w)
    \/ \E w \in Workers : JobThumbnail(w)
    \/ \E w \in Workers : JobEmbed(w)
    \/ \E w \in Workers : JobUpdate(w)
    \/ \E w \in Workers : JobFail(w)
    \/ \E w \in Workers : JobComplete(w)
    \/ ShutdownCall
    \/ ShutdownWait
    \/ ShutdownClose

CoordinatorStep ==
    \/ HubShutdown
    \/ \E w \in Workers : RunBroadcast(w)
    \/ \E w \in Workers : BroadcastDropped(w)
    \/ RunDone

\* the goroutines of the connections in S
ClientStepOf(S) ==
    \/ \E c \in S : Connect(c)
    \/ \E c \in S : RunRegister(c)
    \/ \E c \in S : RunUnregister(c)
    \/ \E c \in S : WritePumpWrite(c)
    \/ \E c \in S : WritePumpExit(c)
    \/ \E c \in S : ReadPumpError(c)

ClientStep == ClientStepOf(Clients)

\* the pipeline with the hub it broadcasts to (no websocket connections)
NextPipeline == PipelineStep \/ CoordinatorStep

SpecPipeline == Init /\ [][NextPipeline]_vars

\* the hub with its connections, and workers as callers of Broadcast
NextHub ==
    \/ CoordinatorStep
    \/ ClientStep
    \/ \E w \in Workers, i \in Items : CallBroadcast(w, i)

InitHub == Init /\ status = [i \in Items |-> "none"]

SpecHub == InitHub /\ [][NextHub]_vars

\* the hub with all but one of the connections and send channels that hold
\* more than one message: the state space in which messages queue up
InitOrder ==
    /\ InitProcess
    /\ sendCap = OrderSendCap
    /\ status = [i \in Items |-> "none"]
    /\ rows = [r \in RowIds |-> NoRow]

NextOrder ==
    \/ CoordinatorStep
    \/ ClientStepOf(1..(NumClients - 1))
    \/ \E w \in Workers, i \in Items : CallBroadcast(w, i)

SpecOrder == InitOrder /\ [][NextOrder]_vars

\* the whole program
Next == PipelineStep \/ CoordinatorStep \/ ClientStep

Spec == Init /\ [][Next]_vars

\* the hub with all but one of the connections: the state space on which
\* the progress properties are checked
NextHubLive ==
    \/ CoordinatorStep
    \/ ClientStepOf(1..(NumClients - 1))
    \/ \E w \in Workers, i \in Items : CallBroadcast(w, i)

\* the scheduling the Go runtime gives: a goroutine that can run does run,
\* and a select that keeps having a ready case takes one
FairSpecHub ==
    /\ InitHub /\ [][NextHubLive]_vars
    /\ \A w \in Workers : WF_vars(RunBroadcast(w))
    /\ \A w \in Workers : WF_vars(BroadcastDropped(w))
    /\ WF_vars(RunDone)

\* the pipeline and the hub it broadcasts to with a single item, which its
\* upload and the recovery scan can both queue: the state space on which the
\* termination of Shutdown is checked
InitShutdownLive == Init /\ \A i \in Items : i > 1 => status[i] = "none"

NextShutdownLive ==
    \/ UploadInsert(1)
    \/ UploadQueue(1)
    \/ ScanQuery
    \/ ScanQueue(1)
    \/ ScanEnd
    \/ \E w \in Workers : WorkerRecv(w)
    \/ \E w \in Workers : WorkerExit(w)
    \/ \E w \in Workers : JobStart(w)
    \/ \E w \in Workers : JobThumbnail(w)
    \/ \E w \in Workers : JobEmbed(w)
    \/ \E w \in Workers : JobUpdate(w)
    \/ \E w \in Workers : JobFail(w)
    \/ \E w \in Workers : JobComplete(w)
    \/ ShutdownCall
    \/ ShutdownWait
    \/ ShutdownClose
    \/ CoordinatorStep

\* every thumbnail, embedding and store call returns and a goroutine that
\* can run does run: the workers, the coordinator's select, the selects of
\* Broadcast and the goroutine inside Shutdown
FairSpecShutdown ==
    /\ InitShutdownLive /\ [][NextShutdownLive]_vars
    /\ \A w \in Workers :
          /\ WF_vars(WorkerRecv(w)) /\ WF_vars(WorkerExit(w))
          /\ WF_vars(JobStart(w)) /\ WF_vars(JobThumbnail(w))
          /\ WF_vars(JobEmbed(w)) /\ WF_vars(JobUpdate(w))
          /\ WF_vars(JobFail(w)) /\ WF_vars(JobComplete(w))
          /\ WF_vars(RunBroadcast(w)) /\ WF_vars(BroadcastDropped(w))
    /\ WF_vars(ShutdownWait) /\ WF_vars(ShutdownClose)

\* the embedding service alone, alive: callers of EmbedTags
EmbedStep ==
    \E c \in Callers :
        \/ \E ids \in TokenSeqs : EmbedLock(c, ids)
        \/ EmbedCopy(c)
        \/ EmbedRun(c)
        \/ EmbedPool(c)
        \/ EmbedReturn(c)

NextEmbed == EmbedStep

SpecEmbed == InitHub /\ [][NextEmbed]_vars

\* the embedding service with its teardown: callers of EmbedTags and the
\* calls of Close
CloseStep == \E k \in CloseCalls : CloseCall(k) \/ CloseRelease(k)

NextEngine ==
    \/ EmbedStep
    \/ \E c \in Callers : EmbedAfterClose(c)
    \/ CloseStep

SpecEngine == InitHub /\ [][NextEngine]_vars

\* the feed handler over an unchanging table
NextFeed ==
    \/ \E filter \in Filters, cursor \in Cursors, limitStr \in LimitStrs :
          FeedRequest(filter, cursor, limitStr)
    \/ FeedFollow
    \/ FeedDone

\* the table holds any rows; nothing else runs
InitFeedTable ==
    /\ InitProcess
    /\ sendCap = SendCap
    /\ status = [i \in Items |-> "none"]
    /\ rows \in Tables

SpecFeed == InitFeedTable /\ [][NextFeed]_vars

(* ---------------------------------------------------------------------- *)
(* Properties                                                              *)
(* ---------------------------------------------------------------------- *)
\* jobs of item i that are queued or held by a worker
ActiveJobs(i) ==
    {j \in JobIds : jobItem[j] = i /\ jobState[j] \in {"queued", "running"}}

\* C1: before shutdown the queue never holds more than QueueCap jobs, and a
\* Queue call is a single step that is always possible: it appends the job
\* when there is room and drops it, changing nothing, when the queue is full.
C1_QueueBoundedNeverBlocks ==
    /\ [](Len(jobs) <= QueueCap)
    /\ [](panicked = "none" =>
            /\ \A i \in Items : upc[i] = "inserted" => ENABLED UploadQueue(i)
            /\ \A i \in Items :
                  (scanPc = "rows" /\ i \in scanRows) => ENABLED ScanQueue(i))
    /\ [][\A j \in JobIds :
            (~jobsClosed /\ jobState[j] = "new" /\ jobState'[j] # "new") =>
               IF Len(jobs) < QueueCap
               THEN jobs' = Append(jobs, j) /\ jobState'[j] = "queued"
               ELSE jobs' = jobs /\ jobState'[j] = "dropped"]_vars

\* C1 witness: the queue is full and a job has been dropped, before shutdown
C1_Witness ==
    /\ ~jobsClosed
    /\ Len(jobs) = QueueCap
    /\ \E j \in JobIds : jobState[j] = "dropped"
    /\ \E j \in JobIds : jobState[j] = "queued"

\* C2: a job that ended on the failure path (thumbnail, embedding or result
\* update failed) leaves its item with status failed once no other job of
\* the item is queued or running, and its callback was never invoked.
C2_FailedJobLeavesFailed ==
    \A j \in JobIds :
        (jobState[j] = "failed" /\ ActiveJobs(jobItem[j]) = {}) =>
            (status[jobItem[j]] = "failed" /\ cbCount[j] = 0)

\* C3: a job whose steps all succeeded leaves its item with status ready
\* once no other job of the item is queued or running, and its callback was
\* invoked exactly once; a job's callback is invoked only by the worker
\* that holds it, after the result update was acknowledged.
C3_SucceededJobLeavesReady ==
    /\ \A j \in JobIds :
          (jobState[j] = "ok" /\ ActiveJobs(jobItem[j]) = {}) =>
              (status[jobItem[j]] = "ready" /\ cbCount[j] = 1)
    /\ \A w \in Workers :
          (wjob[w] # 0 /\ cbCount[wjob[w]] > 0) =>
              (wpc[w] = "broadcast" /\ cbCount[wjob[w]] = 1)

\* C4: closing the queue removes no job from it; every queued job is still
\* in the channel until a worker receives it; and when Shutdown has returned
\* every worker has exited, the queue is empty and every job that was
\* accepted has run to its end (success or failure path).
C4_ShutdownDrains ==
    /\ [](\A j \in JobIds :
            jobState[j] = "queued" <=> \E k \in 1..Len(jobs) : jobs[k] = j)
    /\ [](spc = "returned" =>
            /\ \A w \in Workers : wpc[w] = "exited"
            /\ jobs = <<>>
            /\ \A j \in JobIds : jobState[j] \notin {"queued", "running"})
    /\ [][(~jobsClosed /\ jobsClosed') =>
            (jobs' = jobs /\ jobState' = jobState /\ wjob' = wjob)]_vars

\* C4 witness: Shutdown has closed the queue and waits, with jobs still
\* queued and a job in flight
C4_Witness ==
    /\ spc = "wait"
    /\ Len(jobs) = QueueCap
    /\ \E w \in Workers : wpc[w] \in {"thumb", "embed", "update"}

\* C5: once Shutdown has closed the queue, a Queue call adds no job and does
\* not panic.
C5_QueueAfterShutdownIsNoOp ==
    [][jobsClosed =>
         (Len(jobs') <= Len(jobs)
          /\ panicked' # "Queue: send on closed channel")]_vars

\* C6: when the coordinator handles a broadcast, every registered client
\* whose buffer has room gets the message appended and stays registered;
\* every registered client whose buffer is full has its buffer closed (and
\* not written) and leaves the set; nobody else is touched.
C6_BroadcastEvictsSlowConsumers ==
    [][\A w \in Workers :
         (wpc[w] = "broadcast" /\ wpc'[w] = "recv" /\ ~hubDone) =>
            /\ \A c \in clients :
                  IF Len(send[c]) < SendCap
                  THEN /\ send'[c] = Append(send[c], wmsg[w])
                       /\ c \in clients'
                       /\ closeCount'[c] = closeCount[c]
                  ELSE /\ send'[c] = send[c]
                       /\ c \notin clients'
                       /\ closeCount'[c] = closeCount[c] + 1
            /\ clients' \subseteq clients
            /\ \A c \in Clients \ clients :
                  send'[c] = send[c] /\ closeCount'[c] = closeCount[c]
            /\ \A c \in Clients : Len(send'[c]) <= SendCap]_vars

\* C6 witness: of three subscribers one was full and was evicted by a
\* broadcast that the two others received; the set holds exactly those two
C6_Witness ==
    /\ ~hubDone
    /\ Cardinality(clients) = 2
    /\ \E e \in Clients \ clients, m \in Items :
          /\ rp[e] = "read"
          /\ closeCount[e] = 1
          /\ Len(send[e]) = SendCap
          /\ send[e][1] # m
          /\ \A c \in clients : send[c] = <<m>>

\* C7: calling Hub.Shutdown again does not panic.
C7_HubShutdownIdempotent ==
    panicked # "Hub.Shutdown: close of closed channel"

\* C8: every Broadcast call returns (unless the process has died), the
\* coordinator never panics while fanning out, accepting the message is
\* always possible before shutdown whatever the subscribers' buffers hold,
\* returning is always possible after shutdown, and a call that returns
\* after shutdown has delivered nothing.
C8_BroadcastReturns ==
    /\ \A w \in Workers :
          (wpc[w] = "broadcast") ~> (wpc[w] = "recv" \/ panicked # "none")
    /\ [](panicked \notin {"Run: send on closed channel",
                           "Run: close of closed channel"})
    /\ [](\A w \in Workers :
            (wpc[w] = "broadcast" /\ panicked = "none") =>
               IF hubDone THEN ENABLED BroadcastDropped(w)
               ELSE ENABLED RunBroadcast(w))
    /\ [][\A w \in Workers :
            (wpc[w] = "broadcast" /\ wpc'[w] = "recv" /\ hubDone) =>
               (send' = send /\ clients' = clients)]_vars

\* C8 witness: a Broadcast call has returned after shutdown, after the
\* coordinator stopped, with a subscriber's buffer full
C8_Witness ==
    /\ hubDone
    /\ runPc = "exited"
    /\ \E w \in Workers : wpc[w] = "recv" /\ wmsg[w] = 0
    /\ \E w \in Workers : wpc[w] = "broadcast"
    /\ \E c \in Clients : Len(send[c]) = SendCap

\* C9: after Hub.Shutdown the coordinator stops with an empty set, and every
\* client that was in the set when shutdown was signalled ends up out of
\* the set with its buffer and its connection closed (unless the process
\* has died); the step in which the coordinator stops closes the buffer and
\* the connection of every client still in the set; once it has stopped the
\* set stays empty.
C9_ShutdownClosesSubscribers ==
    /\ hubDone ~> ((runPc = "exited" /\ clients = {}) \/ panicked # "none")
    /\ \A c \in Clients :
          (hubDone /\ c \in clients) ~>
             \/ c \notin clients /\ closeCount[c] = 1 /\ connClosed[c]
             \/ panicked # "none"
    /\ [](runPc = "exited" => clients = {})
    /\ [][(runPc = "select" /\ runPc' = "exited") =>
            /\ hubDone
            /\ clients' = {}
            /\ \A c \in clients :
                  /\ closeCount[c] = 0
                  /\ closeCount'[c] = 1
                  /\ connClosed'[c]]_vars

\* C9 witness: the coordinator has stopped and closed two subscribers that
\* were registered and had not asked to leave
C9_Witness ==
    /\ runPc = "exited"
    /\ \E c, d \in Clients :
          /\ c # d
          /\ rp[c] = "read" /\ closeCount[c] = 1 /\ connClosed[c]
          /\ rp[d] = "read" /\ closeCount[d] = 1 /\ connClosed[d]
          /\ wp[c] = "run" /\ wp[d] = "run"

\* C10: an unregister request for a client in the set removes it and closes
\* its buffer; for a client not in the set it changes nothing; no buffer is
\* closed twice, and a client whose unregister was handled has had its
\* buffer closed exactly once.
C10_UnregisterClosesOnce ==
    /\ [](\A c \in Clients :
            /\ closeCount[c] <= 1
            /\ rp[c] = "exited" => closeCount[c] = 1)
    /\ [][\A c \in Clients :
            (rp[c] = "unreg" /\ rp'[c] = "exited") =>
               IF c \in clients
               THEN clients' = clients \ {c}
                    /\ closeCount' = [closeCount EXCEPT ![c] = closeCount[c] + 1]
               ELSE clients' = clients /\ closeCount' = closeCount
                    /\ send' = send]_vars

\* C10 witness: one client's unregister request has been handled and its
\* buffer closed once, and the request of another client, which a broadcast
\* has already evicted, is waiting to be handled
C10_Witness ==
    /\ ~hubDone
    /\ \E c, d \in Clients :
          /\ rp[c] = "exited" /\ closeCount[c] = 1
          /\ rp[d] = "unreg" /\ closeCount[d] = 1 /\ d \notin clients

\* C11: every job accepted into the queue is received by exactly one worker
\* and run exactly once: the queue never holds a job twice, a job leaves the
\* queue only by being handed to one idle worker, no two workers hold the
\* same job, a job that was received never returns to the queue, a finished
\* (ok or failed) or dropped job keeps its state, and when all workers have
\* exited no accepted job is left unreceived.
C11_JobRunsExactlyOnce ==
    /\ [](\A k, l \in 1..Len(jobs) : k # l => jobs[k] # jobs[l])
    /\ [](\A w, v \in Workers : (w # v /\ wjob[w] # 0) => wjob[w] # wjob[v])
    /\ [](\A j \in JobIds :
            jobState[j] = "running" <=> \E w \in Workers : wjob[w] = j)
    /\ []((\A w \in Workers : wpc[w] = "exited") =>
            \A j \in JobIds : jobState[j] # "queued")
    /\ [][\A j \in JobIds :
            /\ (jobState[j] = "queued" /\ jobState'[j] # "queued") =>
                  /\ jobState'[j] = "running"
                  /\ \E w \in Workers :
                        /\ wpc[w] = "recv" /\ wjob'[w] = j
                        /\ \A v \in Workers \ {w} : wjob'[v] = wjob[v]
            /\ jobState[j] = "running" =>
                  jobState'[j] \in {"running", "ok", "failed"}
            /\ jobState[j] \in {"ok", "failed", "dropped"} =>
                  jobState'[j] = jobState[j]
            /\ jobState[j] \in {"running", "ok", "failed", "dropped"} =>
                  \A k \in 1..Len(jobs') : jobs'[k] # j]_vars

\* C11 witness: one job has failed and stays failed while a worker runs
\* another job and a third one waits in the queue
C11_Witness ==
    /\ \E j \in JobIds : jobState[j] = "failed"
    /\ \E j \in JobIds : jobState[j] = "running"
    /\ \E j \in JobIds : jobState[j] = "queued"
    /\ \E w \in Workers : wpc[w] = "recv" /\ wjob[w] = 0

\* C12: the recovery scan turns every row it selected (status pending at
\* scan time) into a queued job, however many rows there are: before
\* shutdown, each Queue call of the scan loop leaves its job in the queue.
C12_RecoveryQueuesEveryPendingItem ==
    [][\A i \in Items :
          (scanPc = "rows" /\ i \in scanRows /\ i \notin scanRows'
             /\ ~jobsClosed) =>
                /\ jobItem'[NextJob] = i
                /\ jobState'[NextJob] = "queued"
                /\ jobs' = Append(jobs, NextJob)]_vars

\* C13: at most one EmbedTags call is between its Lock and its Unlock at any
\* time: no two callers are at writing the input tensors, running the
\* session or reading the output tensor together, the caller that is there
\* holds the lock, and the shared tensors change only in a step of the
\* lock's holder.
C13_OneInferenceAtATime ==
    /\ [](\A c, d \in Callers :
            (c # d /\ epc[c] \in {"copy", "run", "pool"}) =>
                epc[d] \notin {"copy", "run", "pool"})
    /\ [](\A c \in Callers : epc[c] \in {"copy", "run", "pool"} <=> mu = c)
    /\ [][<<inputIDs, attentionMask, output>>'
             # <<inputIDs, attentionMask, output>> =>
               \E c \in Callers :
                  /\ mu = c
                  /\ epc[c] \in {"copy", "run"}
                  /\ epc'[c] # epc[c]
                  /\ \A d \in Callers \ {c} : epc'[d] = epc[d]]_vars

\* C13 witness: one caller is running the session on its own text while
\* another caller, served before with a different text, has its result
C13_Witness ==
    \E c, d \in Callers :
        /\ c # d
        /\ epc[c] = "run" /\ mu = c
        /\ epc[d] = "done" /\ eres[d].err = ""
        /\ etext[d] # etext[c]

\* C14: however many Close calls are made and however they interleave, the
\* session, the tensors and the environment are destroyed at most once, at
\* most one call is inside the destroying function, and once any call has
\* returned they have been destroyed exactly once.
C14_CloseReleasesOnce ==
    /\ released <= 1
    /\ Cardinality({k \in CloseCalls : kpc[k] = "in"}) <= 1
    /\ (\E k \in CloseCalls : kpc[k] = "done") => released = 1

\* C14 witness: all the calls of Close have returned
C14_Witness ==
    /\ \A k \in CloseCalls : kpc[k] = "done"
    /\ released = 1

\* a vector of numbers whose squares add up to 1
IsUnit(v) ==
    /\ \A k \in 1..Len(v) : Finite(v[k]) /\ v[k].den # 0 /\ v[k].sq > 0
    /\ \A k \in 1..Len(v) : v[k].sq = v[1].sq /\ v[k].den = v[1].den
    /\ SumSeq([k \in 1..Len(v) |-> v[k].num * v[k].num])
          = v[1].den * v[1].den * v[1].sq

\* C15: a call of EmbedTags that has returned either returned an error or
\* returned a vector of unit length; when the mask has no unmasked position
\* or the pooled vector is zero, it returned the error InvalidInput and no
\* vector.
C15_EmbedReturnsUnitOrInvalidInput ==
    \A c \in Callers :
        epc[c] = "done" =>
            /\ eres[c].err = "" => IsUnit(eres[c].vec)
            /\ eres[c].err # "" => eres[c].vec = <<>>
            /\ (eres[c].err # "inference"
                  /\ \/ PoolCount(Encode(etext[c], SeqLen).mask, SeqLen) = 0
                     \/ \A j \in 1..Dim : PoolFresh(etext[c])[j].num = 0)
                 => eres[c].err = "InvalidInput"

\* C16: the vector a call returns is the one the same text gives on freshly
\* created tensors, whatever calls came before it; so two calls with the
\* same text return the same vector. Between its copy and its return a
\* call finds in the input tensors exactly its own encoding.
C16_EmbedIsHistoryIndependent ==
    /\ \A c \in Callers :
          (epc[c] = "done" /\ eres[c].err = "") =>
              eres[c].vec = EmbedFresh(etext[c])
    /\ \A c, d \in Callers :
          (epc[c] = "done" /\ epc[d] = "done" /\ etext[c] = etext[d]
             /\ eres[c].err = "" /\ eres[d].err = "") =>
                eres[c].vec = eres[d].vec
    /\ \A c \in Callers :
          epc[c] \in {"run", "pool"} =>
              /\ inputIDs = Encode(etext[c], SeqLen).inputIDs
              /\ attentionMask = Encode(etext[c], SeqLen).mask
              /\ tokenTypeIDs = ZeroTensor(SeqLen)

\* C16 witness: a call with a one-token text has returned a vector after a
\* call with a text that fills the window: the tensors hold the short
\* text's encoding and the other caller still has its result
C16_Witness ==
    \E c, d \in Callers :
        /\ epc[c] = "done" /\ eres[c].err = "" /\ Len(etext[c]) = 1
        /\ IsUnit(eres[c].vec)
        /\ epc[d] = "done" /\ eres[d].err = "" /\ Len(etext[d]) >= SeqLen
        /\ inputIDs = Encode(etext[c], SeqLen).inputIDs

\* the rows a request with this cursor can be answered with in plain mode
PlainEligible(cursor) ==
    {r \in RowIds :
        /\ rows[r].status = "ready"
        /\ cursor # "" => rows[r].createdAt < ParseTime(cursor).t}

\* C17: a page answered in plain mode holds only ready rows, each once, in
\* descending order of created_at, at most N of them (N the effective
\* limit, between 1 and 50); when the request carried a cursor, every row
\* of the page was created strictly before the cursor's time; and no ready
\* row left out is newer than a row of the page.
C17_PlainFeedPage ==
    (fwalk # "idle" /\ freq.filter = "" /\ fresp.ok) =>
        LET items == fresp.items
            n == Len(items)
        IN  /\ \A k \in 1..n : rows[items[k]].status = "ready"
            /\ \A k, l \in 1..n : k # l => items[k] # items[l]
            /\ \A k, l \in 1..n :
                  k < l => rows[items[k]].createdAt >= rows[items[l]].createdAt
            /\ n <= EffectiveLimit(freq.limit)
            /\ EffectiveLimit(freq.limit) \in 1..MaxLimit
            /\ freq.cursor # "" =>
                  /\ ParseTime(freq.cursor).ok
                  /\ \A k \in 1..n :
                        rows[items[k]].createdAt < ParseTime(freq.cursor).t
            /\ \A r \in PlainEligible(freq.cursor) :
                  (\A k \in 1..n : items[k] # r) =>
                      \A k \in 1..n :
                         rows[r].createdAt <= rows[items[k]].createdAt

\* C17 witness: a plain request with a cursor was answered with a page,
\* while a ready row created at the cursor's time and a pending row created
\* before it were left out
C17_Witness ==
    /\ fwalk # "idle" /\ freq.filter = "" /\ fresp.ok
    /\ freq.cursor # ""
    /\ Len(fresp.items) >= 1
    /\ \E r \in RowIds :
          /\ rows[r].status = "ready"
          /\ rows[r].createdAt = ParseTime(freq.cursor).t
    /\ \E r \in RowIds :
          /\ rows[r].status = "pending"
          /\ rows[r].createdAt < ParseTime(freq.cursor).t

C19_CursorIffFullPage ==
    (fwalk # "idle" /\ fresp.ok) =>
        LET items == fresp.items
            n == Len(items)
        IN  /\ fresp.next # "" <=> n = EffectiveLimit(freq.limit)
            /\ fresp.next # "" =>
                  /\ n > 0
                  /\ fresp.next = FormatTime(rows[items[n]].createdAt)
                  /\ ParseTime(fresp.next).ok
                  /\ ParseTime(fresp.next).t = rows[items[n]].createdAt

\* C19 witness: a filtered request was answered with a page of N rows, N
\* above 1, and the cursor that goes with it
C19_Witness ==
    /\ fwalk = "open" /\ fresp.ok /\ freq.filter # ""
    /\ Len(fresp.items) = EffectiveLimit(freq.limit)
    /\ Len(fresp.items) > 1
    /\ fresp.next # ""

\* the rows a request with this cursor can be answered with in filtered
\* mode
FilteredEligible(cursor) ==
    {r \in RowIds :
        /\ rows[r].status = "ready"
        /\ rows[r].sim > SimThreshold
        /\ cursor # "" => rows[r].createdAt < ParseTime(cursor).t}

\* C20: a page answered in filtered mode holds only ready rows whose
\* similarity is strictly above the threshold, each once, in descending
\* order of similarity whatever their created_at, at most N of them; and
\* no matching row left out is more similar than a row of the page.
C20_FilteredFeedPage ==
    (fwalk # "idle" /\ freq.filter # "" /\ fresp.ok) =>
        LET items == fresp.items
            n == Len(items)
        IN  /\ \A k \in 1..n :
                  /\ rows[items[k]].status = "ready"
                  /\ rows[items[k]].sim > SimThreshold
            /\ \A k, l \in 1..n : k # l => items[k] # items[l]
            /\ \A k, l \in 1..n :
                  k < l => rows[items[k]].sim >= rows[items[l]].sim
            /\ n <= EffectiveLimit(freq.limit)
            /\ \A r \in FilteredEligible(freq.cursor) :
                  (\A k \in 1..n : items[k] # r) =>
                      \A k \in 1..n : rows[r].sim <= rows[items[k]].sim

\* C20 witness: a filtered page of two rows, the more similar one first
\* although it is the older one, while a ready row whose similarity is
\* exactly the threshold was left out
C20_Witness ==
    /\ fwalk # "idle" /\ freq.filter # "" /\ fresp.ok
    /\ Len(fresp.items) = 2
    /\ rows[fresp.items[1]].sim > rows[fresp.items[2]].sim
    /\ rows[fresp.items[2]].sim = SimThreshold + 1
    /\ rows[fresp.items[1]].createdAt < rows[fresp.items[2]].createdAt
    /\ \E r \in RowIds :
          rows[r].status = "ready" /\ rows[r].sim = SimThreshold

\* C21: the page size N of a feed request is 20 when no limit is given and
\* otherwise the requested limit clamped into 1..50 (above 50 gives 50,
\* below 1 gives 1); N is always within 1..50 and no page holds more than N
\* rows.
C21_LimitClampedInto1To50 ==
    fwalk # "idle" =>
        LET l == Atoi(freq.limit)
            N == EffectiveLimit(freq.limit)
            clamped == IF l.n > MaxLimit THEN MaxLimit
                       ELSE IF l.n < 1 THEN 1 ELSE l.n
        IN  /\ N \in 1..MaxLimit
            /\ freq.limit = "" => N = DefaultLimit
            /\ (freq.limit # "" /\ l.ok) =>
                  /\ N = clamped
                  /\ fresp.ok => Len(fresp.items) <= clamped

\* C22: a page of either mode holds no row whose status is pending,
\* processing or failed, and serving a feed request leaves the table (a
\* row's status, embedding, creation time) and the whole pipeline state,
\* the job queue included, as they were.
C22_FeedReadsOnlyReadyAndWritesNothing ==
    /\ [](\A k \in 1..Len(fseen) : rows[fseen[k]].status \notin Unfinished)
    /\ []((fwalk # "idle" /\ fresp.ok) =>
            \A k \in 1..Len(fresp.items) :
               rows[fresp.items[k]].status = "ready")
    /\ [][(freq' # freq \/ fresp' # fresp \/ fwalk' # fwalk) =>
            (rows' = rows /\ pipeVars' = pipeVars /\ jobs' = jobs
               /\ status' = status)]_vars

\* C22 witness: a filtered request was answered with a page while the table
\* holds a failed and a processing row, both closer to the filter than the
\* row on the page
C22_Witness ==
    /\ fwalk # "idle" /\ fresp.ok /\ freq.filter # ""
    /\ Len(fresp.items) = 1
    /\ \E r, q \in RowIds :
          /\ rows[r].status = "failed" /\ rows[q].status = "processing"
          /\ rows[r].sim > rows[fresp.items[1]].sim
          /\ rows[q].sim > rows[fresp.items[1]].sim

\* C23: a Queue call that finds the queue full drops its job and changes
\* nothing else: the queued jobs and their order, every other job, the
\* workers and the store are as before, the process goes on, the drop is
\* observable (the job is marked dropped, the logged warning), and a dropped
\* job is never in the queue or in a worker's hands.
C23_QueueOnFullQueueDrops ==
    /\ [](\A j \in JobIds :
            jobState[j] = "dropped" =>
               /\ \A k \in 1..Len(jobs) : jobs[k] # j
               /\ \A w \in Workers : wjob[w] # j)
    /\ [][\A j \in JobIds :
            (Len(jobs) = QueueCap /\ jobState[j] = "new"
               /\ jobState'[j] # "new") =>
                  /\ jobState'[j] = "dropped"
                  /\ jobs' = jobs
                  /\ \A k \in JobIds \ {j} : jobState'[k] = jobState[k]
                  /\ <<status, wpc, wjob, cbCount, jobsClosed>>'
                        = <<status, wpc, wjob, cbCount, jobsClosed>>
                  /\ panicked' = "none"]_vars

\* C24: an upload whose Queue call finds the queue full still returns its
\* success result: the row stays inserted, the job is dropped, the queue
\* and the store are as before and the process goes on; and as long as no
\* other job of the item was created (by the recovery scan), the item's
\* status is pending.
C24_UploadOnFullQueueSucceeds ==
    /\ [](\A i \in Items :
            (upc[i] = "done" /\ panicked = "none"
               /\ \A j \in JobIds : jobItem[j] = i => jobState[j] = "dropped")
                  => status[i] = "pending")
    /\ [][\A i \in Items :
            (upc[i] = "inserted" /\ upc'[i] # "inserted"
               /\ Len(jobs) = QueueCap) =>
                  /\ upc'[i] = "done"
                  /\ panicked' = "none"
                  /\ jobItem'[NextJob] = i
                  /\ jobState'[NextJob] = "dropped"
                  /\ jobs' = jobs
                  /\ status' = status /\ status[i] # "none"]_vars

\* C25: a feed request that met an error answers with a failure carrying
\* no items, and a successful page is never a result set whose reading was
\* ended early by an error.
C25_NoPartialPageAsSuccess ==
    fwalk # "idle" =>
        /\ ~fresp.ok => (fresp.items = <<>> /\ fresp.next = "" /\ fresp.err # "")
        /\ fresp.ok => ~fresp.cut

\* C26: a client's buffer changes only by a broadcast putting its message
\* behind every message already waiting, the same message for every client
\* that gets one, or by the client's write pump taking the oldest message
\* to write it; so each subscriber is written the messages it gets in the
\* order the coordinator handled them.
C26_BroadcastOrderPreserved ==
    [][\A c \in Clients :
         \/ send'[c] = send[c]
         \/ \E w \in Workers :
               /\ wpc[w] = "broadcast" /\ wpc'[w] = "recv"
               /\ c \in clients
               /\ send'[c] = Append(send[c], wmsg[w])
               /\ \A d \in Clients :
                     send'[d] \in {send[d], Append(send[d], wmsg[w])}
         \/ /\ wp[c] = "run"
            /\ send[c] # <<>>
            /\ send'[c] = Tail(send[c])
            /\ \A d \in Clients \ {c} : send'[d] = send[d]]_vars

\* C26 witness: two broadcasts of different messages wait in one
\* subscriber's buffer in the order they were handled, while the pump of
\* another subscriber has already written the first
C26_Witness ==
    /\ panicked = "none"
    /\ \E c, d \in clients, a, b \in Items :
          /\ a # b
          /\ send[c] = <<a, b>>
          /\ send[d] = <<b>>
          /\ wp[c] = "run" /\ wp[d] = "run"

\* C27: a worker takes the steps of its job one after the other: the
\* status processing is written by the step that leads to the thumbnail,
\* the embedding is entered only from the thumbnail, the result update only
\* from the embedding, the callback only from an update that wrote ready; a
\* step that fails leads to the failure path, which is left only by ending
\* the job as failed without any callback.
C27_JobStepsSequential ==
    [][\A w \in Workers :
         LET id == jobItem[wjob[w]]
             moved == wpc'[w] # wpc[w]
         IN  /\ (moved /\ wpc'[w] = "thumb") =>
                   (wpc[w] = "start" /\ status'[id] = "processing")
             /\ (moved /\ wpc'[w] = "embed") => wpc[w] = "thumb"
             /\ (moved /\ wpc'[w] = "update") => wpc[w] = "embed"
             /\ (moved /\ wpc'[w] = "complete") =>
                   (wpc[w] = "update" /\ status'[id] = "ready")
             /\ (moved /\ wpc'[w] = "fail") =>
                   wpc[w] \in {"thumb", "embed", "update"}
             /\ (moved /\ wpc[w] = "fail") =>
                   (wpc'[w] = "recv" /\ jobState'[wjob[w]] = "failed"
                      /\ cbCount' = cbCount)
             /\ (wpc[w] \in {"start", "thumb", "embed", "update"}) =>
                   wjob'[w] = wjob[w]]_vars

\* the UPDATE of job j that writes embedding and status ready has been
\* acknowledged: its worker is about to call, or has called, the callback
EmbeddingWritten(j) ==
    \/ cbCount[j] > 0
    \/ \E w \in Workers : wjob[w] = j /\ wpc[w] = "complete"

\* C28: the embedding of an item is written by at most one acknowledged
\* update in a run, the step that writes it is the one that sets the status
\* to ready, and the status becomes ready by no other step (so an item that
\* was never ready has the placeholder it was inserted with).
C28_EmbeddingWrittenOnceWithReady ==
    /\ [](\A i \in Items :
            Cardinality({j \in JobIds :
                           jobItem[j] = i /\ EmbeddingWritten(j)}) <= 1)
    /\ [][\A w \in Workers :
            (wpc[w] = "update" /\ wpc'[w] = "complete") =>
               status'[jobItem[wjob[w]]] = "ready"]_vars
    /\ [][\A i \in Items :
            (status'[i] = "ready" /\ status[i] # "ready") =>
               \E w \in Workers :
                  /\ wpc[w] = "update" /\ wpc'[w] = "complete"
                  /\ jobItem[wjob[w]] = i]_vars

\* C29: no item has more than one job accepted into the queue in a run,
\* and the status of an item only moves forward: never from ready or
\* failed to anything else, never from processing back to pending.
C29_NoItemProcessedTwice ==
    /\ [](\A i \in Items :
            Cardinality({j \in JobIds :
                           /\ jobItem[j] = i
                           /\ jobState[j] \in {"queued", "running",
                                                "ok", "failed"}}) <= 1)
    /\ [][\A i \in Items :
            /\ status[i] \in {"ready", "failed"} => status'[i] = status[i]
            /\ status[i] = "processing" => status'[i] # "pending"]_vars

\* C30: in every state of the hub a client that has been registered is in
\* the set exactly if its send buffer has not been closed, and only
\* registered clients are in the set; no buffer is closed twice, a message
\* is put only into the open buffer of a client in the set, and the
\* coordinator never panics on a send or a close.
C30_InSetIffBufferOpen ==
    /\ [](\A c \in Clients :
            /\ c \in clients => cpc[c] = "active"
            /\ cpc[c] = "active" => (c \in clients <=> closeCount[c] = 0)
            /\ closeCount[c] <= 1)
    /\ [](panicked \notin {"Run: send on closed channel",
                           "Run: close of closed channel"})
    /\ [][\A c \in Clients :
            /\ Len(send'[c]) > Len(send[c]) =>
                  (c \in clients /\ closeCount[c] = 0)
            /\ closeCount'[c] # closeCount[c] =>
                  (c \in clients /\ c \notin clients'
                     /\ closeCount[c] = 0 /\ closeCount'[c] = 1)
            /\ (c \in clients /\ c \notin clients') =>
                  closeCount'[c] = 1]_vars

\* C30 witness: after register, broadcast, eviction, unregister and the
\* shutdown signal: one client is in the set with a message in its open
\* buffer, one was evicted by a broadcast, one left by unregistering
C30_Witness ==
    /\ hubDone /\ runPc = "select" /\ panicked = "none"
    /\ \E c, d, e \in Clients :
          /\ c \in clients /\ closeCount[c] = 0 /\ send[c] # <<>>
          /\ d \notin clients /\ closeCount[d] = 1 /\ rp[d] = "read"
                /\ Len(send[d]) = SendCap
          /\ e \notin clients /\ closeCount[e] = 1 /\ rp[e] = "exited"
                /\ e # d

\* C31: once the coordinator has stopped, no read pump is parked in its
\* unregister request and no connection is parked in its register request
\* (the coordinator was their only receiver and never runs again, so a
\* goroutine parked there stays parked for ever).
C31_NobodyParkedOnStoppedHub ==
    runPc = "exited" =>
        \A c \in Clients : rp[c] # "unreg" /\ cpc[c] # "registering"

\* C32: while an EmbedTags call is between its lock and its return, Close
\* has not begun to destroy the session and the tensors; a call that starts
\* after Close returns an error at once without entering the inference;
\* the destroyed session is never used.
C32_NoInferenceOnReleasedEngine ==
    /\ [](\A c \in Callers :
            epc[c] \in {"copy", "run", "pool"} => SessionLive)
    /\ [](panicked # "EmbedTags: use of a destroyed session")
    /\ [][\A c \in Callers :
            (epc[c] = "idle" /\ epc'[c] # "idle" /\ ~SessionLive) =>
               /\ epc'[c] = "done"
               /\ eres'[c].err \notin {"none", ""}]_vars

\* C33: a Shutdown that has closed the queue returns (unless the process
\* has died), whether or not the hub was shut down or has stopped before;
\* a worker in the callback can always get out of Broadcast; and a further
\* call of Shutdown is always possible and returns at once, changing
\* nothing.
C33_ShutdownTerminates ==
    /\ (spc = "wait") ~> (spc = "returned" \/ panicked # "none")
    /\ [](\A w \in Workers :
            (wpc[w] = "broadcast" /\ panicked = "none") =>
               (ENABLED RunBroadcast(w) \/ ENABLED BroadcastDropped(w)))
    /\ []((spc = "returned" /\ shutCalls < MaxShutdowns
             /\ panicked = "none") => ENABLED ShutdownCall)
    /\ [][(spc = "returned" /\ shutCalls' # shutCalls) =>
            (spc' = "returned" /\ panicked' = panicked
               /\ <<jobs, jobsClosed, wpc, embClosed>>'
                     = <<jobs, jobsClosed, wpc, embClosed>>)]_vars

\* C33 witness: Shutdown was called a second time and has returned, after
\* the hub had been shut down and its coordinator had stopped, and after a
\* draining worker's callback for a job that went through the closed queue
C33_Witness ==
    /\ spc = "returned" /\ shutCalls = 2
    /\ hubDone /\ runPc = "exited"
    /\ panicked = "none"
    /\ \E j \in JobIds : jobState[j] = "ok" /\ cbCount[j] = 1
    /\ \E j \in JobIds : jobState[j] = "failed"

\* C34: a filtered-mode walk that started without a cursor, followed every
\* next_cursor and got a page without one has been given every ready row
\* whose similarity is above the threshold exactly once, and no other row
\* (no read of the store having failed on the way).
C34_FilteredWalkYieldsEveryMatchOnce ==
    (fwalk = "ended" /\ freq.filter # "" /\ ~fcut) =>
        /\ \A r \in RowIds :
              (rows[r].status = "ready" /\ rows[r].sim > SimThreshold) =>
                 Cardinality({k \in 1..Len(fseen) : fseen[k] = r}) = 1
        /\ \A k \in 1..Len(fseen) :
              /\ rows[fseen[k]].status = "ready"
              /\ rows[fseen[k]].sim > SimThreshold
        /\ \A k, l \in 1..Len(fseen) : k # l => fseen[k] # fseen[l]

\* the number of real tokens of a text that fit into the window
RealTokens(ids) == IF Len(ids) < SeqLen THEN Len(ids) ELSE SeqLen

\* C35: when a call pools, the number of unmasked positions is the number
\* of the text's tokens in the window; every component of the pooled vector
\* is the sum of the output over exactly those positions divided by their
\* number; with one real token the pooled vector is that token's vector;
\* whatever the output holds at the padded positions makes no difference;
\* and the vector returned is the pooled vector, normalized.
C35_MeanPoolingOverUnmaskedPositions ==
    \A c \in Callers :
        LET n == RealTokens(etext[c])
            mask == Encode(etext[c], SeqLen).mask
            mean(out) == [j \in 1..Dim |->
                            FDiv(SumSeq([i \in 1..n |-> out[i][j]]), n)]
            other == [i \in 1..SeqLen |->
                        IF i <= n THEN output[i] ELSE [d \in 1..Dim |-> 7]]
        IN  /\ epc[c] = "pool" =>
                  LET pooled == meanPooling(output, mask, SeqLen, Dim)
                  IN  /\ PoolCount(mask, SeqLen) = n
                      /\ pooled = mean(output)
                      /\ n = 1 => \A j \in 1..Dim :
                                     pooled[j] = Fin(output[1][j], 1, 1)
                      /\ meanPooling(other, mask, SeqLen, Dim) = pooled
            /\ (epc[c] = "done" /\ eres[c].err = "") =>
                  eres[c].vec =
                     normalize(mean(Run(Encode(etext[c], SeqLen).inputIDs,
                                        mask, ZeroTensor(SeqLen))))

\* C35 witness: a call with a single real token has pooled and returned a
\* unit vector while the output tensor holds a vector that is not zero at
\* the padded position
C35_Witness ==
    \E c \in Callers :
        /\ epc[c] = "done" /\ eres[c].err = ""
        /\ Len(etext[c]) = 1 /\ SeqLen > 1
        /\ attentionMask = Encode(etext[c], SeqLen).mask
        /\ output = Run(Encode(etext[c], SeqLen).inputIDs, attentionMask,
                        ZeroTensor(SeqLen))
        /\ \E d \in 1..Dim : output[SeqLen][d] # 0
        /\ IsUnit(eres[c].vec)

====
